---------------------------- MODULE Spec2Model ----------------------------
(***************************************************************************)
(* Stock reservation and order lifecycle of the uniform-shop application   *)
(* (src/app.py): the SQLite tables produtos, pedidos and pedido_itens, the *)
(* data-access functions adicionar_pedido, atualizar_status_pedido,        *)
(* liberar_estoque_producao and excluir_pedido, and the Streamlit handlers *)
(* of the "Pedidos" page that call them (order draft in session state,     *)
(* "Adicionar Item", "Finalizar Pedido", "Atualizar", "Excluir Pedido").    *)
(*                                                                         *)
(* Every data-access function opens its own connection, runs its writes in *)
(* one SQLite transaction and commits or rolls back before it returns, so  *)
(* each call is one step.  Sessions interleave between handler runs, and   *)
(* between the listing of the orders and the click handler that uses it.   *)
(***************************************************************************)
EXTENDS Integers, Sequences, FiniteSets, TLC

(***************************************************************************)
(* Bounds of the model.                                                    *)
(***************************************************************************)
MaxPedidos == 2        \* orders created in one behaviour
MaxPedidosItens == 1   \* the same, in the smaller specifications
MaxQuantidade == 2     \* largest quantity of a draft line, typed or accumulated
EstoqueInicial == 1    \* stock every product is registered with
PrecoInicial == 3      \* price every product is registered with
MaxNovaQuantidade == 2 \* largest value typed in "Nova quantidade"

Venda == "Venda"
Producao == "Produção"
TiposPedido == {Venda, Producao}

\* the options of the "Alterar status" selectbox
StatusOpcoes ==
    {"Pendente", "Em produção", "Pronto para entrega", "Entregue", "Cancelado"}

NULL == "NULL"
Nenhum == [pedido_id |-> 0, status |-> NULL]

VARIABLES
    produtos,          \* table produtos: id -> [estoque, estoque_reservado]
    pedidos,           \* table pedidos: id -> row
    pedido_itens,      \* table pedido_itens: rows in insertion order
    sqlite_sequence,   \* AUTOINCREMENT counter of pedidos
    clientes,          \* table clientes: the ids of its rows
    st_session_state,  \* per session: the order draft and the kind radio
    listado,           \* per session: the order row its running script listed
    ultimo,            \* the last data-access call and its result; antes: the
                       \* stock table before a successful adicionar_pedido,
                       \* kept while that order is deleted by the next call
    chamada            \* the script run that is between two of its statements:
                       \* a call of atualizar_status_pedido with its two
                       \* connections, or a "Finalizar Pedido" run that has
                       \* listed the clients

vars == <<produtos, pedidos, pedido_itens, sqlite_sequence, clientes,
          st_session_state, listado, ultimo, chamada>>

\* the committed database, as one value the data-access functions transform
DB == [produtos |-> produtos, pedidos |-> pedidos,
       pedido_itens |-> pedido_itens, sqlite_sequence |-> sqlite_sequence,
       clientes |-> clientes]

(***************************************************************************)
(* Helpers on rows.                                                        *)
(***************************************************************************)
RECURSIVE SomaQuantidade(_)
SomaQuantidade(itens) ==
    IF itens = <<>> THEN 0
    ELSE Head(itens).quantidade + SomaQuantidade(Tail(itens))

\* sum(item['subtotal'] for item in itens)
RECURSIVE SomaSubtotal(_)
SomaSubtotal(itens) ==
    IF itens = <<>> THEN 0
    ELSE Head(itens).subtotal + SomaSubtotal(Tail(itens))

\* SELECT produto_id, quantidade FROM pedido_itens WHERE pedido_id = ?
SelectItens(db, pedido_id) ==
    SelectSeq(db.pedido_itens, LAMBDA r : r.pedido_id = pedido_id)

\* quantity of product p over a sequence of rows
RECURSIVE QuantidadeDe(_, _)
QuantidadeDe(itens, p) ==
    IF itens = <<>> THEN 0
    ELSE (IF Head(itens).produto_id = p THEN Head(itens).quantidade ELSE 0)
         + QuantidadeDe(Tail(itens), p)

\* UPDATE produtos SET estoque = estoque + d WHERE id = p (no row: no effect)
UpdateEstoque(prods, p, d) ==
    IF p \in DOMAIN prods
    THEN [prods EXCEPT ![p].estoque = @ + d]
    ELSE prods

\* UPDATE produtos SET estoque_reservado = estoque_reservado + d WHERE id = p
UpdateReservado(prods, p, d) ==
    IF p \in DOMAIN prods
    THEN [prods EXCEPT ![p].estoque_reservado = @ + d]
    ELSE prods

\* a rollback that leaves the transaction's writes in place
rollback_semDesfazer(confirmado, transacao) == transacao

\* conn.rollback(): the connection's uncommitted writes are discarded
rollback(confirmado, transacao) == confirmado

(***************************************************************************)
(* liberar_estoque_producao: moves every line of the order from reserved   *)
(* to real stock, on a connection of its own.  bloqueado: another          *)
(* connection holds an open write transaction on the database file; the    *)
(* first UPDATE then waits for the busy timeout and raises "database is    *)
(* locked", which the function turns into (False, msg) after a rollback.   *)
(* With no line there is no UPDATE and the call succeeds.                  *)
(***************************************************************************)
RECURSIVE Transferir(_, _)
Transferir(prods, itens) ==
    IF itens = <<>> THEN prods
    ELSE Transferir(
           UpdateReservado(
             UpdateEstoque(prods, Head(itens).produto_id, Head(itens).quantidade),
             Head(itens).produto_id, 0 - Head(itens).quantidade),
           Tail(itens))

liberar_estoque_producao(db, pedido_id, bloqueado) ==
    LET itens == SelectItens(db, pedido_id) IN
    IF itens # <<>> /\ bloqueado
    THEN [sucesso |-> FALSE, db |-> rollback(db, db)]
    ELSE [sucesso |-> TRUE,
          db |-> [db EXCEPT !.produtos = Transferir(db.produtos, itens)]]

(***************************************************************************)
(* adicionar_pedido: inserts the header (status defaults to 'Pendente',    *)
(* data_entrega_real to NULL) and, line by line, the pedido_itens row and  *)
(* the stock UPDATE of the order kind, then commits.  No statement reads   *)
(* the stock.  falha = 0: no exception; falha = k: the storage raises      *)
(* while line k is inserted, after lines 1..k-1 were processed, and the    *)
(* except branch rolls the transaction back.                               *)
(***************************************************************************)
\* the INSERT storing the number of lines as quantidade_total
InsertPedido_contaLinhas(db, cliente_id, itens, tipo_pedido) ==
    LET pedido_id == db.sqlite_sequence + 1 IN
    [db EXCEPT
       !.sqlite_sequence = pedido_id,
       !.pedidos = [i \in DOMAIN db.pedidos \cup {pedido_id} |->
                      IF i = pedido_id
                      THEN [cliente_id |-> cliente_id,
                            status |-> "Pendente",
                            data_entrega_real |-> NULL,
                            quantidade_total |-> Len(itens),
                            valor_total |-> SomaSubtotal(itens),
                            tipo_pedido |-> tipo_pedido]
                      ELSE db.pedidos[i]]]

InsertPedido(db, cliente_id, itens, tipo_pedido) ==
    LET pedido_id == db.sqlite_sequence + 1 IN
    [db EXCEPT
       !.sqlite_sequence = pedido_id,
       !.pedidos = [i \in DOMAIN db.pedidos \cup {pedido_id} |->
                      IF i = pedido_id
                      THEN [cliente_id |-> cliente_id,
                            status |-> "Pendente",
                            data_entrega_real |-> NULL,
                            quantidade_total |-> SomaQuantidade(itens),
                            valor_total |-> SomaSubtotal(itens),
                            tipo_pedido |-> tipo_pedido]
                      ELSE db.pedidos[i]]]

\* the loop body with the two stock UPDATEs exchanged
ProcessarItem_trocado(tx, pedido_id, item, tipo_pedido) ==
    LET comItem == [tx EXCEPT !.pedido_itens =
                      Append(@, [pedido_id |-> pedido_id,
                                 produto_id |-> item.produto_id,
                                 quantidade |-> item.quantidade,
                                 preco_unitario |-> item.preco_unitario,
                                 subtotal |-> item.subtotal])]
    IN IF tipo_pedido = Venda
       THEN [comItem EXCEPT !.produtos =
               UpdateReservado(@, item.produto_id, item.quantidade)]
       ELSE [comItem EXCEPT !.produtos =
               UpdateEstoque(@, item.produto_id, 0 - item.quantidade)]

\* the body of "for item in itens" (lines 535-548)
ProcessarItem(tx, pedido_id, item, tipo_pedido) ==
    LET comItem == [tx EXCEPT !.pedido_itens =
                      Append(@, [pedido_id |-> pedido_id,
                                 produto_id |-> item.produto_id,
                                 quantidade |-> item.quantidade,
                                 preco_unitario |-> item.preco_unitario,
                                 subtotal |-> item.subtotal])]
    IN IF tipo_pedido = Venda
       THEN [comItem EXCEPT !.produtos =
               UpdateEstoque(@, item.produto_id, 0 - item.quantidade)]
       ELSE [comItem EXCEPT !.produtos =
               UpdateReservado(@, item.produto_id, item.quantidade)]

\* the transaction after the first n lines
RECURSIVE ProcessarItens(_, _, _, _, _)
ProcessarItens(tx, pedido_id, itens, tipo_pedido, n) ==
    IF n = 0 THEN tx
    ELSE ProcessarItem(ProcessarItens(tx, pedido_id, itens, tipo_pedido, n - 1),
                       pedido_id, itens[n], tipo_pedido)

adicionar_pedido(db, cliente_id, itens, tipo_pedido, falha) ==
    LET tx0 == InsertPedido(db, cliente_id, itens, tipo_pedido)
        pedido_id == tx0.sqlite_sequence
    IN IF falha = 0
       THEN [ok |-> TRUE, pedido_id |-> pedido_id,
             db |-> ProcessarItens(tx0, pedido_id, itens, tipo_pedido, Len(itens))]
       ELSE [ok |-> FALSE, pedido_id |-> 0,
             db |-> rollback(db, ProcessarItens(tx0, pedido_id, itens,
                                                tipo_pedido, falha - 1))]

(***************************************************************************)
(* atualizar_status_pedido: reads the order kind (an order that does not   *)
(* exist makes fetchone() return None, the subscript raises and the call   *)
(* returns False), writes the status on its connection and, for            *)
(* 'Entregue' on a production order, calls liberar_estoque_producao while  *)
(* its own UPDATE is still uncommitted.  The result of the release only    *)
(* feeds st.warning; the status is committed and True returned either way. *)
(***************************************************************************)
\* sqlite3 opens a transaction before a connection's first UPDATE, INSERT
\* or DELETE and keeps the database write lock until commit or rollback;
\* n_dml: the statements of that kind executed since the last commit
in_transaction(n_dml) == n_dml > 0

\* the UPDATE storing the accented option without its accent
UpdateStatus_semAcento(db, pedido_id, novo_status) ==
    IF novo_status = "Entregue"
    THEN [db EXCEPT !.pedidos[pedido_id].status = novo_status,
                    !.pedidos[pedido_id].data_entrega_real = "hoje"]
    ELSE IF novo_status = "Em produção"
    THEN [db EXCEPT !.pedidos[pedido_id].status = "Em producao"]
    ELSE [db EXCEPT !.pedidos[pedido_id].status = novo_status]

\* the UPDATE of 'Cancelado' also clearing the totals of the order
UpdateStatus_zeraTotais(db, pedido_id, novo_status) ==
    IF novo_status = "Entregue"
    THEN [db EXCEPT !.pedidos[pedido_id].status = novo_status,
                    !.pedidos[pedido_id].data_entrega_real = "hoje"]
    ELSE IF novo_status = "Cancelado"
    THEN [db EXCEPT !.pedidos[pedido_id].status = novo_status,
                    !.pedidos[pedido_id].quantidade_total = 0,
                    !.pedidos[pedido_id].valor_total = 0]
    ELSE [db EXCEPT !.pedidos[pedido_id].status = novo_status]

\* the UPDATE of 'Entregue' without the delivery date
UpdateStatus_semData(db, pedido_id, novo_status) ==
    [db EXCEPT !.pedidos[pedido_id].status = novo_status]

\* "hoje" stands for datetime.now().strftime("%Y-%m-%d")
UpdateStatus(db, pedido_id, novo_status) ==
    IF novo_status = "Entregue"
    THEN [db EXCEPT !.pedidos[pedido_id].status = novo_status,
                    !.pedidos[pedido_id].data_entrega_real = "hoje"]
    ELSE [db EXCEPT !.pedidos[pedido_id].status = novo_status]

\* the release made for every kind of order, on the caller's own connection
atualizar_status_pedido_semTipo(db, pedido_id, novo_status) ==
    IF pedido_id \notin DOMAIN db.pedidos
    THEN [ok |-> FALSE, liberar |-> "nao", db |-> db]
    ELSE
      LET tx == UpdateStatus(db, pedido_id, novo_status)
      IN IF novo_status = "Entregue"
         THEN [ok |-> TRUE, liberar |-> "sucesso",
               db |-> [tx EXCEPT !.produtos =
                         Transferir(@, SelectItens(db, pedido_id))]]
         ELSE [ok |-> TRUE, liberar |-> "nao", db |-> tx]

atualizar_status_pedido(db, pedido_id, novo_status) ==
    IF pedido_id \notin DOMAIN db.pedidos
    THEN [ok |-> FALSE, liberar |-> "nao", db |-> db]
    ELSE
      LET tipo_pedido == db.pedidos[pedido_id].tipo_pedido
          tx == UpdateStatus(db, pedido_id, novo_status)
      IN IF novo_status = "Entregue" /\ tipo_pedido = Producao
         THEN LET r == liberar_estoque_producao(db, pedido_id, in_transaction(1))
              IN [ok |-> TRUE,
                  liberar |-> IF r.sucesso THEN "sucesso" ELSE "falhou",
                  \* conn.commit(): the status write lands on what the
                  \* other connection committed
                  db |-> [r.db EXCEPT !.pedidos = tx.pedidos]]
         ELSE [ok |-> TRUE, liberar |-> "nao", db |-> tx]

(***************************************************************************)
(* excluir_pedido: reads the kind and the lines, gives the quantities back *)
(* (estoque for 'Venda', estoque_reservado otherwise) whatever the status, *)
(* and deletes the header.  Foreign keys are not enabled on the            *)
(* connection, so ON DELETE CASCADE does not run and the pedido_itens rows *)
(* stay.                                                                   *)
(***************************************************************************)
\* the reversal with the 'Venda' test missing: everything goes to estoque
RECURSIVE Restaurar_sempreEstoque(_, _, _)
RECURSIVE Restaurar_trocado(_, _, _)
Restaurar_sempreEstoque(prods, itens, tipo_pedido) ==
    IF itens = <<>> THEN prods
    ELSE Restaurar_sempreEstoque(
           UpdateEstoque(prods, Head(itens).produto_id, Head(itens).quantidade),
           Tail(itens), tipo_pedido)

RECURSIVE Restaurar(_, _, _)
\* the restoring loop with the test on the kind inverted
Restaurar_trocado(prods, itens, tipo_pedido) ==
    IF itens = <<>> THEN prods
    ELSE Restaurar_trocado(
           IF tipo_pedido # Venda
           THEN UpdateEstoque(prods, Head(itens).produto_id, Head(itens).quantidade)
           ELSE UpdateReservado(prods, Head(itens).produto_id,
                                0 - Head(itens).quantidade),
           Tail(itens), tipo_pedido)

Restaurar(prods, itens, tipo_pedido) ==
    IF itens = <<>> THEN prods
    ELSE Restaurar(
           IF tipo_pedido = Venda
           THEN UpdateEstoque(prods, Head(itens).produto_id, Head(itens).quantidade)
           ELSE UpdateReservado(prods, Head(itens).produto_id,
                                0 - Head(itens).quantidade),
           Tail(itens), tipo_pedido)

DeletePedido(peds, pedido_id) ==
    [i \in DOMAIN peds \ {pedido_id} |-> peds[i]]

\* a deletion that does not give the quantities back
excluir_pedido_semRestaurar(db, pedido_id) ==
    IF pedido_id \notin DOMAIN db.pedidos
    THEN [ok |-> FALSE, db |-> db]
    ELSE [ok |-> TRUE,
          db |-> [db EXCEPT !.pedidos = DeletePedido(@, pedido_id)]]

excluir_pedido(db, pedido_id) ==
    IF pedido_id \notin DOMAIN db.pedidos
    THEN [ok |-> FALSE, db |-> db]
    ELSE LET tipo_pedido == db.pedidos[pedido_id].tipo_pedido
             itens == SelectItens(db, pedido_id)
         IN [ok |-> TRUE,
             db |-> [db EXCEPT
                       !.produtos = Restaurar(@, itens, tipo_pedido),
                       !.pedidos = DeletePedido(@, pedido_id)]]

(***************************************************************************)
(* Initial states: the tables after init_db and product registration       *)
(* (adicionar_produto: estoque from a number_input with min_value 0,       *)
(* estoque_reservado defaults to 0), no order, empty drafts, the kind      *)
(* radio on its first option.                                              *)
(***************************************************************************)
\* no call is running: no connection is open, nobody holds the write lock
Ociosa ==
    [pc |-> "ocioso", sessao |-> 0, cliente_id |-> 0, pedido_id |-> 0,
     in_transaction |-> FALSE, espera |-> 0, sucesso |-> "nao"]

SemChamada ==
    [op |-> "nenhuma", ok |-> TRUE, liberar |-> "nao", falha |-> 0,
     tipo_pedido |-> NULL, antes |-> <<>>]

InitCom(Sessoes, Produtos) ==
    /\ produtos = [p \in Produtos |-> [estoque |-> EstoqueInicial,
                                        estoque_reservado |-> 0,
                                        preco |-> PrecoInicial]]
    /\ pedidos = <<>>
    /\ pedido_itens = <<>>
    /\ sqlite_sequence = 0
    /\ clientes = {1}
    /\ st_session_state = [s \in Sessoes |->
                             [itens_pedido |-> <<>>, tipo_pedido |-> Venda]]
    /\ listado = [s \in Sessoes |-> Nenhum]
    /\ ultimo = SemChamada
    /\ chamada = Ociosa

\* one session, one product
Init == InitCom({1}, {1})

\* one session, two products
InitItens == InitCom({1}, {1, 2})

\* two sessions on one product
InitConc == InitCom({1, 2}, {1})

Commit(db) ==
    /\ produtos' = db.produtos
    /\ pedidos' = db.pedidos
    /\ pedido_itens' = db.pedido_itens
    /\ sqlite_sequence' = db.sqlite_sequence
    /\ clientes' = db.clientes

(***************************************************************************)
(* "Novo Pedido" tab.                                                      *)
(***************************************************************************)
\* the radio "Tipo de Pedido"; the draft in session state is kept
SelecionarTipo(s, tipo) ==
    /\ st_session_state[s].tipo_pedido # tipo
    /\ st_session_state' = [st_session_state EXCEPT ![s].tipo_pedido = tipo]
    /\ UNCHANGED <<produtos, pedidos, pedido_itens, sqlite_sequence, clientes,
                   listado, ultimo, chamada>>

\* index of the draft line of product p, 0 when there is none
ItemExistente(itens, p) ==
    IF \E i \in 1..Len(itens) : itens[i].produto_id = p
    THEN CHOOSE i \in 1..Len(itens) : itens[i].produto_id = p
    ELSE 0

\* the availability test of "Adicionar Item", on the product row just read
Indisponivel(tipo_pedido, quantidade, produto) ==
    \/ tipo_pedido = Venda /\ quantidade > produto.estoque
    \/ tipo_pedido = Producao
         /\ quantidade > produto.estoque + produto.estoque_reservado

\* "Adicionar Item": the typed quantity is tested, then merged into the
\* line of the same product or appended.  conferido records whether the
\* line's quantity is within the stock that test read (not a field of the
\* draft; kept for the properties).
AdicionarItem(s, p, quantidade) ==
    LET ss == st_session_state[s]
        produto == produtos[p]
        i == ItemExistente(ss.itens_pedido, p)
    IN /\ IF Indisponivel(ss.tipo_pedido, quantidade, produto)
          THEN UNCHANGED st_session_state
          ELSE IF i # 0
               THEN /\ ss.itens_pedido[i].quantidade + quantidade <= MaxQuantidade
                    /\ st_session_state' =
                         [st_session_state EXCEPT
                            ![s].itens_pedido[i].quantidade = @ + quantidade,
                            ![s].itens_pedido[i].subtotal =
                               (ss.itens_pedido[i].quantidade + quantidade)
                                 * ss.itens_pedido[i].preco_unitario,
                            ![s].itens_pedido[i].conferido =
                               ss.itens_pedido[i].quantidade + quantidade
                                 <= produto.estoque]
               ELSE st_session_state' =
                      [st_session_state EXCEPT ![s].itens_pedido =
                         Append(@, [produto_id |-> p,
                                    quantidade |-> quantidade,
                                    preco_unitario |-> produto.preco,
                                    subtotal |-> produto.preco * quantidade,
                                    conferido |->
                                      quantidade <= produto.estoque])]
       /\ UNCHANGED <<produtos, pedidos, pedido_itens, sqlite_sequence, clientes,
                      listado, ultimo, chamada>>

\* "Remover": st.session_state.itens_pedido.pop(i)
RemoverItem(s, i) ==
    LET itens == st_session_state[s].itens_pedido IN
    /\ i \in 1..Len(itens)
    /\ st_session_state' = [st_session_state EXCEPT ![s].itens_pedido =
                              SubSeq(itens, 1, i - 1)
                                \o SubSeq(itens, i + 1, Len(itens))]
    /\ UNCHANGED <<produtos, pedidos, pedido_itens, sqlite_sequence, clientes,
                   listado, ultimo, chamada>>

\* the dictionaries handed to adicionar_pedido
Linhas(itens) ==
    [i \in 1..Len(itens) |-> [produto_id |-> itens[i].produto_id,
                              quantidade |-> itens[i].quantidade,
                              preco_unitario |-> itens[i].preco_unitario,
                              subtotal |-> itens[i].subtotal]]

\* "Finalizar Pedido" shown and accepted whatever the draft holds
FinalizarPedido_semItens(s, falha, max_pedidos) ==
    \E cliente_id \in clientes :
       LET ss == st_session_state[s]
           r == adicionar_pedido(DB, cliente_id, Linhas(ss.itens_pedido),
                                 ss.tipo_pedido, falha)
       IN /\ sqlite_sequence < max_pedidos
          /\ falha \in 0..Len(ss.itens_pedido)
          /\ Commit(r.db)
          /\ st_session_state' =
               IF r.ok THEN [st_session_state EXCEPT ![s].itens_pedido = <<>>]
               ELSE st_session_state
          /\ ultimo' = [op |-> "adicionar_pedido", ok |-> r.ok,
                        liberar |-> "nao", falha |-> falha,
                        tipo_pedido |-> ss.tipo_pedido,
                        antes |-> IF r.ok THEN produtos ELSE <<>>]
          /\ UNCHANGED <<listado, chamada>>

\* the click handler of "Finalizar Pedido", shown for a non-empty draft:
\* calls adicionar_pedido with the client of the selectbox, the draft and
\* the current radio value; the draft is deleted on success only.
FinalizarCom(s, cliente_id, falha, max_pedidos) ==
    LET ss == st_session_state[s]
        r == adicionar_pedido(DB, cliente_id, Linhas(ss.itens_pedido),
                              ss.tipo_pedido, falha)
    IN /\ ss.itens_pedido # <<>>
       /\ sqlite_sequence < max_pedidos
       /\ falha \in 0..Len(ss.itens_pedido)
       /\ Commit(r.db)
       /\ st_session_state' =
            IF r.ok THEN [st_session_state EXCEPT ![s].itens_pedido = <<>>]
            ELSE st_session_state
       /\ ultimo' = [op |-> "adicionar_pedido", ok |-> r.ok,
                     liberar |-> "nao", falha |-> falha,
                     tipo_pedido |-> ss.tipo_pedido,
                     antes |-> IF r.ok THEN produtos ELSE <<>>]
       /\ UNCHANGED listado

\* "Finalizar Pedido" as one step: the script lists the clients, the
\* selectbox holds one of them, and the click handler runs
FinalizarPedido(s, falha, max_pedidos) ==
    /\ \E cliente_id \in clientes :
          FinalizarCom(s, cliente_id, falha, max_pedidos)
    /\ UNCHANGED chamada

(***************************************************************************)
(* "Gerenciar Pedidos" tab: a script run lists the orders, then the click  *)
(* handler of one order works on the row that was listed.                  *)
(***************************************************************************)
ListarPedido(s, pedido_id) ==
    /\ listado[s] = Nenhum
    /\ pedido_id \in DOMAIN pedidos
    /\ listado' = [listado EXCEPT ![s] =
                     [pedido_id |-> pedido_id,
                      status |-> pedidos[pedido_id].status]]
    /\ UNCHANGED <<produtos, pedidos, pedido_itens, sqlite_sequence, clientes,
                   st_session_state, ultimo, chamada>>

\* "Atualizar": the call is made only when the selected status differs
\* from the listed one
AtualizarStatus(s, novo_status) ==
    LET pedido == listado[s]
        r == atualizar_status_pedido(DB, pedido.pedido_id, novo_status)
    IN /\ pedido # Nenhum
       /\ listado' = [listado EXCEPT ![s] = Nenhum]
       /\ IF novo_status # pedido.status
          THEN /\ Commit(r.db)
               /\ ultimo' = [op |-> "atualizar_status_pedido", ok |-> r.ok,
                             liberar |-> r.liberar, falha |-> 0,
                             tipo_pedido |-> NULL, antes |-> <<>>]
          ELSE UNCHANGED <<produtos, pedidos, pedido_itens,
                           sqlite_sequence, clientes, ultimo>>
       /\ UNCHANGED <<st_session_state, chamada>>

\* "Excluir Pedido" and its confirmation: the call excluir_pedido(pedido[0])
\* of line 1525, taken as reached by the confirmation click (the
\* confirmation button is nested in the block of the first button)
ExcluirPedido(s) ==
    LET pedido == listado[s]
        r == excluir_pedido(DB, pedido.pedido_id)
    IN /\ pedido # Nenhum
       /\ listado' = [listado EXCEPT ![s] = Nenhum]
       /\ Commit(r.db)
       /\ ultimo' = [op |-> "excluir_pedido", ok |-> r.ok,
                     liberar |-> "nao", falha |-> 0,
                     tipo_pedido |->
                       IF r.ok THEN pedidos[pedido.pedido_id].tipo_pedido
                       ELSE NULL,
                     \* kept when the order deleted is the one the previous
                     \* call created
                     antes |->
                       IF /\ r.ok
                          /\ ultimo.op = "adicionar_pedido" /\ ultimo.ok
                          /\ pedido.pedido_id = sqlite_sequence
                       THEN ultimo.antes ELSE <<>>]
       /\ UNCHANGED <<st_session_state, chamada>>

Next ==
    \E s \in DOMAIN st_session_state :
       \/ \E tipo \in TiposPedido : SelecionarTipo(s, tipo)
       \/ \E q \in 1..MaxQuantidade : AdicionarItem(s, 1, q)
       \/ RemoverItem(s, 1)
       \/ \E falha \in 0..1 : FinalizarPedido(s, falha, MaxPedidos)
       \/ \E pedido_id \in 1..MaxPedidos : ListarPedido(s, pedido_id)
       \/ \E novo_status \in StatusOpcoes : AtualizarStatus(s, novo_status)
       \/ ExcluirPedido(s)

\* one session, one product
Spec == Init /\ [][Next]_vars

\* one session, two products, so that drafts and orders have two lines:
\* composing, creating and deleting orders
NextItens ==
    \E s \in DOMAIN st_session_state :
       \/ \E tipo \in TiposPedido : SelecionarTipo(s, tipo)
       \/ \E p \in DOMAIN produtos, q \in 1..MaxQuantidade : AdicionarItem(s, p, q)
       \/ \E i \in 1..2 : RemoverItem(s, i)
       \/ \E falha \in 0..2 : FinalizarPedido(s, falha, MaxPedidosItens)
       \/ \E pedido_id \in 1..MaxPedidosItens : ListarPedido(s, pedido_id)
       \/ ExcluirPedido(s)

SpecItens == InitItens /\ [][NextItens]_vars

\* one session, one product, every handler, fewer orders
NextStatus ==
    \E s \in DOMAIN st_session_state :
       \/ \E tipo \in TiposPedido : SelecionarTipo(s, tipo)
       \/ \E q \in 1..MaxQuantidade : AdicionarItem(s, 1, q)
       \/ RemoverItem(s, 1)
       \/ \E falha \in 0..1 : FinalizarPedido(s, falha, MaxPedidosItens)
       \/ \E pedido_id \in 1..MaxPedidosItens : ListarPedido(s, pedido_id)
       \/ \E novo_status \in StatusOpcoes : AtualizarStatus(s, novo_status)
       \/ ExcluirPedido(s)

SpecStatus == Init /\ [][NextStatus]_vars

(***************************************************************************)
(* "Estoque" page, "Ajuste de Estoque": the number field starts at the      *)
(* listed estoque and keeps what the user types; "Atualizar" calls          *)
(* atualizar_estoque when the typed value differs from the estoque the      *)
(* running script listed, and the function stores the typed value as the    *)
(* new estoque.                                                             *)
(***************************************************************************)
atualizar_estoque(db, produto_id, nova_quantidade) ==
    IF produto_id \in DOMAIN db.produtos
    THEN [db EXCEPT !.produtos[produto_id].estoque = nova_quantidade]
    ELSE db

AjustarEstoque(s, produto_id, nova_quantidade) ==
    /\ produto_id \in DOMAIN produtos
    /\ nova_quantidade >= 0
    /\ nova_quantidade # produtos[produto_id].estoque
    /\ Commit(atualizar_estoque(DB, produto_id, nova_quantidade))
    /\ ultimo' = [SemChamada EXCEPT !.op = "atualizar_estoque"]
    /\ UNCHANGED <<st_session_state, listado, chamada>>

\* the handlers of the "Pedidos" page and the stock adjustment
NextAjuste ==
    \E s \in DOMAIN st_session_state :
       \/ \E tipo \in TiposPedido : SelecionarTipo(s, tipo)
       \/ \E q \in 1..MaxQuantidade : AdicionarItem(s, 1, q)
       \/ RemoverItem(s, 1)
       \/ \E falha \in 0..1 : FinalizarPedido(s, falha, MaxPedidosItens)
       \/ \E pedido_id \in 1..MaxPedidosItens : ListarPedido(s, pedido_id)
       \/ \E novo_status \in StatusOpcoes : AtualizarStatus(s, novo_status)
       \/ ExcluirPedido(s)
       \/ \E nova_quantidade \in 0..MaxNovaQuantidade :
             AjustarEstoque(s, 1, nova_quantidade)

SpecAjuste == Init /\ [][NextAjuste]_vars

(***************************************************************************)
(* atualizar_status_pedido(pedido_id, 'Entregue') statement by statement.  *)
(* The caller's connection runs its UPDATE pedidos, which opens a          *)
(* transaction and takes the write lock of the database file; for a        *)
(* 'Produção' order liberar_estoque_producao then opens a second           *)
(* connection, reads the lines and runs its first UPDATE produtos, which   *)
(* needs the same lock: sqlite3 retries it until the connection's timeout  *)
(* has passed and then raises "database is locked"; the function rolls     *)
(* back, closes and returns (False, msg), and the caller commits.          *)
(***************************************************************************)
\* seconds a connection of sqlite3.connect waits for a lock (the default of
\* its timeout parameter, which get_connection does not set)
BusyTimeout == 5

\* a connection that waits for the lock without limit
Expirou_nunca(espera) == FALSE

\* the busy handler gives up
Expirou(espera) == espera >= BusyTimeout

\* lines 598-610: SELECT tipo_pedido, UPDATE pedidos SET status, not committed
EntregarInicio(s) ==
    LET pedido == listado[s] IN
    /\ chamada.pc = "ocioso"
    /\ pedido # Nenhum
    /\ "Entregue" # pedido.status
    /\ pedido.pedido_id \in DOMAIN pedidos
    /\ chamada' = [pc |-> IF pedidos[pedido.pedido_id].tipo_pedido = Producao
                          THEN "liberar_select" ELSE "commit",
                   sessao |-> s,
                   cliente_id |-> 0,
                   pedido_id |-> pedido.pedido_id,
                   in_transaction |-> in_transaction(1),
                   espera |-> 0,
                   sucesso |-> "nao"]
    /\ UNCHANGED <<produtos, pedidos, pedido_itens, sqlite_sequence, clientes,
                   st_session_state, listado, ultimo>>

\* lines 487-496: the second connection reads the lines of the order; with
\* no line the loop is empty and the function commits and returns
LiberarSelect ==
    /\ chamada.pc = "liberar_select"
    /\ chamada' =
         IF SelectItens(DB, chamada.pedido_id) = <<>>
         THEN [chamada EXCEPT !.pc = "commit", !.sucesso = "sucesso"]
         ELSE [chamada EXCEPT !.pc = "liberar_update"]
    /\ UNCHANGED <<produtos, pedidos, pedido_itens, sqlite_sequence, clientes,
                   st_session_state, listado, ultimo>>

\* lines 498-513: the first UPDATE produtos of the second connection; while
\* the caller's transaction is open it waits another second, until the
\* timeout; then, or with the lock free, the function finishes
LiberarUpdate ==
    LET r == liberar_estoque_producao(DB, chamada.pedido_id,
                                      chamada.in_transaction)
    IN /\ chamada.pc = "liberar_update"
       /\ IF chamada.in_transaction /\ ~Expirou(chamada.espera)
          THEN /\ chamada' = [chamada EXCEPT !.espera =
                                IF @ < BusyTimeout THEN @ + 1 ELSE @]
               /\ UNCHANGED <<produtos, pedidos, pedido_itens, sqlite_sequence,
                              clientes>>
          ELSE /\ chamada' = [chamada EXCEPT
                                !.pc = "commit",
                                !.sucesso = IF r.sucesso THEN "sucesso"
                                            ELSE "falhou"]
               /\ Commit(r.db)
       /\ UNCHANGED <<st_session_state, listado, ultimo>>

\* lines 632-639 and 1515-1517: the caller commits its UPDATE, closes and
\* returns True; the page reruns
EntregarCommit ==
    /\ chamada.pc = "commit"
    /\ Commit(UpdateStatus(DB, chamada.pedido_id, "Entregue"))
    /\ ultimo' = [op |-> "atualizar_status_pedido", ok |-> TRUE,
                  liberar |-> chamada.sucesso, falha |-> 0,
                  tipo_pedido |-> NULL, antes |-> <<>>]
    /\ listado' = [listado EXCEPT ![chamada.sessao] = Nenhum]
    /\ chamada' = Ociosa
    /\ UNCHANGED st_session_state

\* the statements of a call that has started
PassoChamada == LiberarSelect \/ LiberarUpdate \/ EntregarCommit

\* one session, one product: orders are drafted, created and listed between
\* calls, and marked 'Entregue' statement by statement
NextTrava ==
    \/ \E s \in DOMAIN st_session_state :
          /\ chamada.pc = "ocioso"
          /\ \/ \E tipo \in TiposPedido : SelecionarTipo(s, tipo)
             \/ \E q \in 1..MaxQuantidade : AdicionarItem(s, 1, q)
             \/ FinalizarPedido(s, 0, MaxPedidosItens)
             \/ \E pedido_id \in 1..MaxPedidosItens : ListarPedido(s, pedido_id)
    \/ \E s \in DOMAIN st_session_state : EntregarInicio(s)
    \/ PassoChamada

\* a call that has started runs on: its thread executes the next statement,
\* and the busy handler wakes up after each sleep
SpecTrava == Init /\ [][NextTrava]_vars /\ WF_vars(PassoChamada)

(***************************************************************************)
(* "Clientes" page, "Excluir Cliente", and the client of a new order.  A    *)
(* script run of the "Novo Pedido" tab lists the clients, its selectbox    *)
(* holds one of the listed clients, and the click handler further down the *)
(* run passes that id to adicionar_pedido, whose INSERT does not look the  *)
(* client up (foreign keys are not enforced).  Another session's call runs *)
(* between the listing and the handler.                                    *)
(***************************************************************************)
\* lines 385-392: refused when an order of the client is stored
excluir_cliente(db, cliente_id) ==
    IF \E pedido_id \in DOMAIN db.pedidos :
          db.pedidos[pedido_id].cliente_id = cliente_id
    THEN [ok |-> FALSE, db |-> db]
    ELSE [ok |-> TRUE, db |-> [db EXCEPT !.clientes = @ \ {cliente_id}]]

\* "Confirmar Exclusão" for a client of the selectbox
ExcluirCliente(s, cliente_id) ==
    LET r == excluir_cliente(DB, cliente_id) IN
    /\ cliente_id \in clientes
    /\ Commit(r.db)
    /\ ultimo' = [SemChamada EXCEPT !.op = "excluir_cliente", !.ok = r.ok]
    /\ UNCHANGED <<st_session_state, listado, chamada>>

\* lines 1268-1279 and 1337: the run of a click on "Finalizar Pedido" has
\* listed the clients and holds the selected one
FinalizarListar(s, cliente_id) ==
    /\ chamada.pc = "ocioso"
    /\ cliente_id \in clientes
    /\ st_session_state[s].itens_pedido # <<>>
    /\ chamada' = [Ociosa EXCEPT !.pc = "adicionar_pedido", !.sessao = s,
                                 !.cliente_id = cliente_id]
    /\ UNCHANGED <<produtos, pedidos, pedido_itens, sqlite_sequence, clientes,
                   st_session_state, listado, ultimo>>

\* lines 1370-1387: the click handler of that run
FinalizarChamar ==
    /\ chamada.pc = "adicionar_pedido"
    /\ FinalizarCom(chamada.sessao, chamada.cliente_id, 0, MaxPedidosItens)
    /\ chamada' = Ociosa

\* two sessions, one product, one client: a session whose run is between
\* the listing and the handler does nothing else
NextClientes ==
    \/ \E s \in DOMAIN st_session_state :
          /\ chamada.sessao # s
          /\ \/ \E q \in 1..MaxQuantidade : AdicionarItem(s, 1, q)
             \/ \E cliente_id \in clientes : FinalizarListar(s, cliente_id)
             \/ \E cliente_id \in clientes : ExcluirCliente(s, cliente_id)
             \/ \E pedido_id \in 1..MaxPedidosItens : ListarPedido(s, pedido_id)
             \/ ExcluirPedido(s)
    \/ FinalizarChamar

SpecClientes == InitConc /\ [][NextClientes]_vars

\* lines are added with the kind selector on 'Produção' only, one click per
\* product; the selector may be moved at any time
AdicionarProducao(s, p, quantidade) ==
    /\ st_session_state[s].tipo_pedido = Producao
    /\ ItemExistente(st_session_state[s].itens_pedido, p) = 0
    /\ AdicionarItem(s, p, quantidade)

NextTroca ==
    \E s \in DOMAIN st_session_state :
       \/ \E tipo \in TiposPedido : SelecionarTipo(s, tipo)
       \/ \E q \in 1..MaxQuantidade : AdicionarProducao(s, 1, q)
       \/ RemoverItem(s, 1)
       \/ FinalizarPedido(s, 0, MaxPedidos)
       \/ \E pedido_id \in 1..MaxPedidos : ListarPedido(s, pedido_id)
       \/ ExcluirPedido(s)

SpecTroca == Init /\ [][NextTroca]_vars

\* the kind selector left at 'Venda': composing, creating, every status
\* change, deleting
NextVenda ==
    \E s \in DOMAIN st_session_state :
       \/ \E q \in 1..MaxQuantidade : AdicionarItem(s, 1, q)
       \/ \E falha \in 0..1 : FinalizarPedido(s, falha, MaxPedidos)
       \/ \E pedido_id \in 1..MaxPedidos : ListarPedido(s, pedido_id)
       \/ \E novo_status \in StatusOpcoes : AtualizarStatus(s, novo_status)
       \/ ExcluirPedido(s)

\* one session on one product
SpecVenda == Init /\ [][NextVenda]_vars

\* two sessions on one product
SpecVendaConc == InitConc /\ [][NextVenda]_vars

\* two sessions on one product: the handlers that check and then apply
\* (draft and finalize; list and mark 'Entregue'), with no storage error
NextConc ==
    \E s \in DOMAIN st_session_state :
       \/ \E tipo \in TiposPedido : SelecionarTipo(s, tipo)
       \/ \E q \in 1..MaxQuantidade : AdicionarItem(s, 1, q)
       \/ FinalizarPedido(s, 0, MaxPedidos)
       \/ \E pedido_id \in 1..MaxPedidos : ListarPedido(s, pedido_id)
       \/ AtualizarStatus(s, "Entregue")

SpecConc == InitConc /\ [][NextConc]_vars

(***************************************************************************)
(* Properties.                                                             *)
(***************************************************************************)
TabelasInalteradas ==
    UNCHANGED <<produtos, pedidos, pedido_itens, sqlite_sequence,
                clientes>>

\* the lines of the draft of session s, and the product row of line i
Rascunho(s) == st_session_state[s].itens_pedido
ProdutoDaLinha(s, i) == produtos[Rascunho(s)[i].produto_id]

\* C1: in every reachable state every product has estoque >= 0 and
\* estoque_reservado >= 0.
C1_EstoqueNaoNegativo ==
    \A p \in DOMAIN produtos :
       produtos[p].estoque >= 0 /\ produtos[p].estoque_reservado >= 0

\* C2: "Finalizar Pedido" of a 'Venda' draft with one line of quantity q,
\* with no storage error, succeeds if and only if q <= estoque of the
\* line's product at that moment.
C2_VendaSseDisponivel ==
    [][\A s \in DOMAIN st_session_state :
         (/\ FinalizarPedido(s, 0, MaxPedidos)
          /\ st_session_state[s].tipo_pedido = Venda
          /\ Len(Rascunho(s)) = 1)
         => ((ultimo'.ok /\ sqlite_sequence' = sqlite_sequence + 1)
              <=> Rascunho(s)[1].quantidade <= ProdutoDaLinha(s, 1).estoque)]_vars

\* C3: "Finalizar Pedido" of a 'Produção' draft with one line of quantity
\* q, with no storage error, succeeds if and only if
\* q <= estoque + estoque_reservado of the line's product at that moment.
C3_ProducaoSseCapacidade ==
    [][\A s \in DOMAIN st_session_state :
         (/\ FinalizarPedido(s, 0, MaxPedidos)
          /\ st_session_state[s].tipo_pedido = Producao
          /\ Len(Rascunho(s)) = 1)
         => ((ultimo'.ok /\ sqlite_sequence' = sqlite_sequence + 1)
              <=> Rascunho(s)[1].quantidade
                    <= ProdutoDaLinha(s, 1).estoque
                       + ProdutoDaLinha(s, 1).estoque_reservado)]_vars

\* C4: a step that ends with adicionar_pedido having returned failure
\* leaves the tables produtos, pedidos and pedido_itens and the id counter
\* as they were, whichever line the failure came at.
C4_FalhaNaoDeixaRastro ==
    [][(ultimo'.op = "adicionar_pedido" /\ ~ultimo'.ok) => TabelasInalteradas]_vars

\* C4 witness: a two-line order failed on its second line, after the first
\* line had been processed.
C4_Witness ==
    /\ ultimo.op = "adicionar_pedido" /\ ~ultimo.ok /\ ultimo.falha = 2
    /\ \E s \in DOMAIN st_session_state : Len(Rascunho(s)) = 2
    /\ pedidos = <<>> /\ pedido_itens = <<>>

\* C5: a 'Venda' order whose every line was within the stock its session
\* read when the line was added never leaves estoque below zero when it is
\* applied.
C5_ConsumoReverificado ==
    [][\A s \in DOMAIN st_session_state :
         (/\ FinalizarPedido(s, 0, MaxPedidos)
          /\ st_session_state[s].tipo_pedido = Venda
          /\ \A i \in 1..Len(Rascunho(s)) : Rascunho(s)[i].conferido)
         => \A p \in DOMAIN produtos : produtos'[p].estoque >= 0]_vars

\* C6: after a 'Venda' order is created, and after it is deleted by the
\* very next call, estoque_reservado is what it was before the creation,
\* and after the deletion estoque is too.
C6_VendaIdaEVolta ==
    (ultimo.ok /\ ultimo.tipo_pedido = Venda /\ ultimo.antes # <<>>)
    => \A p \in DOMAIN produtos :
          /\ produtos[p].estoque_reservado = ultimo.antes[p].estoque_reservado
          /\ ultimo.op = "excluir_pedido"
               => produtos[p].estoque = ultimo.antes[p].estoque

\* C6 witness: a 'Venda' order that took stock was deleted right after its
\* creation.
C6_Witness ==
    /\ ultimo.op = "excluir_pedido" /\ ultimo.ok
    /\ ultimo.tipo_pedido = Venda /\ ultimo.antes # <<>>
    /\ sqlite_sequence \notin DOMAIN pedidos
    /\ SomaQuantidade(SelectItens(DB, sqlite_sequence)) > 0

\* C7: after a 'Produção' order is created, and after it is deleted by the
\* very next call, estoque is what it was before the creation, and after
\* the deletion estoque_reservado is too.
C7_ProducaoIdaEVolta ==
    (ultimo.ok /\ ultimo.tipo_pedido = Producao /\ ultimo.antes # <<>>)
    => \A p \in DOMAIN produtos :
          /\ produtos[p].estoque = ultimo.antes[p].estoque
          /\ ultimo.op = "excluir_pedido"
               => produtos[p].estoque_reservado
                    = ultimo.antes[p].estoque_reservado

\* C7 witness: a 'Produção' order that reserved stock was deleted right
\* after its creation.
C7_Witness ==
    /\ ultimo.op = "excluir_pedido" /\ ultimo.ok
    /\ ultimo.tipo_pedido = Producao /\ ultimo.antes # <<>>
    /\ sqlite_sequence \notin DOMAIN pedidos
    /\ SomaQuantidade(SelectItens(DB, sqlite_sequence)) > 0

\* the order a session has listed is a 'Produção' order that still exists
ListadoProducao(s) ==
    /\ listado[s].pedido_id \in DOMAIN pedidos
    /\ pedidos[listado[s].pedido_id].tipo_pedido = Producao

\* every line quantity of the order moved from reserved to available
Liberado(pedido_id) ==
    \A p \in DOMAIN produtos :
       LET q == QuantidadeDe(SelectItens(DB, pedido_id), p) IN
       /\ produtos'[p].estoque = produtos[p].estoque + q
       /\ produtos'[p].estoque_reservado = produtos[p].estoque_reservado - q

\* C8: marking a 'Produção' order 'Entregue' adds each line's quantity to
\* estoque, takes it from estoque_reservado, and sets the status.
C8_EntregaLiberaReserva ==
    [][\A s \in DOMAIN st_session_state :
         (/\ AtualizarStatus(s, "Entregue")
          /\ ListadoProducao(s)
          /\ listado[s].status # "Entregue"
          /\ pedidos[listado[s].pedido_id].status # "Entregue")
         => /\ Liberado(listado[s].pedido_id)
            /\ pedidos'[listado[s].pedido_id].status = "Entregue"]_vars

\* C9: when the release of a status change fails, the call returns failure
\* and the pedidos table is left as it was.
C9_StatusEEstoqueAtomicos ==
    [][\A s \in DOMAIN st_session_state : \A novo_status \in StatusOpcoes :
         (/\ AtualizarStatus(s, novo_status)
          /\ novo_status # listado[s].status
          /\ ultimo'.liberar = "falhou")
         => (~ultimo'.ok /\ pedidos' = pedidos)]_vars

\* C10: of the requests of 'Entregue' for a 'Produção' order, the first
\* moves the line quantities from reserved to available and a repeated one
\* changes no stock.
C10_EntregaUmaVez ==
    [][\A s \in DOMAIN st_session_state :
         (/\ AtualizarStatus(s, "Entregue")
          /\ ListadoProducao(s)
          /\ listado[s].status # "Entregue")
         => IF pedidos[listado[s].pedido_id].status = "Entregue"
            THEN produtos' = produtos
            ELSE Liberado(listado[s].pedido_id)]_vars

\* the listed order of session s is still stored
ListadoExiste(s) == listado[s].pedido_id \in DOMAIN pedidos

\* C11: a status change requested for an order whose status is 'Entregue'
\* or 'Cancelado' fails and leaves the pedidos and produtos tables as they
\* were.
C11_TerminalRecusaTransicao ==
    [][\A s \in DOMAIN st_session_state : \A novo_status \in StatusOpcoes :
         (/\ AtualizarStatus(s, novo_status)
          /\ novo_status # listado[s].status
          /\ ListadoExiste(s)
          /\ pedidos[listado[s].pedido_id].status \in {"Entregue", "Cancelado"})
         => (~ultimo'.ok /\ pedidos' = pedidos /\ produtos' = produtos)]_vars

\* every line quantity of the order put back where its creation took it from
Revertido(pedido_id) ==
    \A p \in DOMAIN produtos :
       LET q == QuantidadeDe(SelectItens(DB, pedido_id), p) IN
       IF pedidos[pedido_id].tipo_pedido = Venda
       THEN /\ produtos'[p].estoque = produtos[p].estoque + q
            /\ produtos'[p].estoque_reservado = produtos[p].estoque_reservado
       ELSE /\ produtos'[p].estoque = produtos[p].estoque
            /\ produtos'[p].estoque_reservado = produtos[p].estoque_reservado - q

\* C12: changing the status of an order that is neither 'Entregue' nor
\* 'Cancelado' to 'Cancelado' puts every line quantity back: on estoque for
\* a 'Venda' order, off estoque_reservado for a 'Produção' order.
C12_CancelarReverteEstoque ==
    [][\A s \in DOMAIN st_session_state :
         (/\ AtualizarStatus(s, "Cancelado")
          /\ listado[s].status # "Cancelado"
          /\ ListadoExiste(s)
          /\ pedidos[listado[s].pedido_id].status \notin {"Entregue", "Cancelado"})
         => Revertido(listado[s].pedido_id)]_vars

\* C13: "Excluir Pedido" of an order whose status is 'Entregue' fails and
\* leaves the order, its lines and the stock counters as they were.
C13_EntregueNaoExcluido ==
    [][\A s \in DOMAIN st_session_state :
         (/\ ExcluirPedido(s)
          /\ ListadoExiste(s)
          /\ pedidos[listado[s].pedido_id].status = "Entregue")
         => (~ultimo'.ok /\ TabelasInalteradas)]_vars

\* C14: in every reachable state every row of pedido_itens carries the id
\* of a stored order.
C14_ItensTemPedido ==
    \A i \in 1..Len(pedido_itens) :
       pedido_itens[i].pedido_id \in DOMAIN pedidos

\* C15: "Finalizar Pedido" is refused for an empty draft, and in every
\* reachable state every stored order has at least one row in pedido_itens.
C15_PedidoTemItens ==
    /\ \A s \in DOMAIN st_session_state :
          Rascunho(s) = <<>>
            => ~ENABLED (\E falha \in 0..Len(Rascunho(s)) :
                           FinalizarPedido(s, falha, MaxPedidosItens))
    /\ \A pedido_id \in DOMAIN pedidos : SelectItens(DB, pedido_id) # <<>>

\* a creation failed and kept the draft, the lines were then removed, and
\* no order can be made of the empty draft
C15_Witness ==
    \E s \in DOMAIN st_session_state :
       /\ ultimo.op = "adicionar_pedido" /\ ~ultimo.ok
       /\ Rascunho(s) = <<>>
       /\ sqlite_sequence < MaxPedidosItens
       /\ ~ENABLED (\E falha \in 0..Len(Rascunho(s)) :
                      FinalizarPedido(s, falha, MaxPedidosItens))

C17_SoOperacoesDePedido ==
    [][produtos' # produtos
         => ultimo'.op \in {"adicionar_pedido", "atualizar_status_pedido",
                            "excluir_pedido"}]_vars

\* C18: a successful "Finalizar Pedido" of a 'Produção' draft adds each
\* line's quantity to estoque_reservado of its product and changes no
\* estoque; of a 'Venda' draft it takes each line's quantity from estoque of
\* its product and changes no estoque_reservado.
C18_CriacaoMoveUmContador ==
    [][\A s \in DOMAIN st_session_state :
         FinalizarPedido(s, 0, MaxPedidosItens)
         => \A p \in DOMAIN produtos :
               LET q == QuantidadeDe(Rascunho(s), p) IN
               IF st_session_state[s].tipo_pedido = Producao
               THEN /\ produtos'[p].estoque_reservado
                         = produtos[p].estoque_reservado + q
                    /\ produtos'[p].estoque = produtos[p].estoque
               ELSE /\ produtos'[p].estoque = produtos[p].estoque - q
                    /\ produtos'[p].estoque_reservado
                         = produtos[p].estoque_reservado]_vars

\* a 'Produção' order with lines of two products was just created
C18_Witness ==
    /\ ultimo.op = "adicionar_pedido" /\ ultimo.ok
    /\ ultimo.tipo_pedido = Producao
    /\ Len(SelectItens(DB, sqlite_sequence)) = 2
    /\ \A p \in DOMAIN produtos : produtos[p].estoque_reservado > 0

\* C19: no creation of a 'Produção' order, no status change of one to a
\* status other than 'Entregue' and no deletion of one increases the
\* estoque of any product.
C19_SoEntregaAumentaEstoque ==
    [][\A s \in DOMAIN st_session_state :
         (\/ /\ \E falha \in 0..Len(Rascunho(s)) :
                   FinalizarPedido(s, falha, MaxPedidosItens)
             /\ st_session_state[s].tipo_pedido = Producao
          \/ /\ \E novo_status \in StatusOpcoes \ {"Entregue"} :
                   AtualizarStatus(s, novo_status)
             /\ ListadoProducao(s)
          \/ /\ ExcluirPedido(s)
             /\ ListadoProducao(s))
         => \A p \in DOMAIN produtos :
               produtos'[p].estoque <= produtos[p].estoque]_vars

\* a 'Produção' order with lines was just deleted: its reservation is gone
\* and estoque is what the product was registered with
C19_Witness ==
    /\ ultimo.op = "excluir_pedido" /\ ultimo.ok
    /\ ultimo.tipo_pedido = Producao
    /\ pedido_itens # <<>>
    /\ \A p \in DOMAIN produtos :
          /\ produtos[p].estoque = EstoqueInicial
          /\ produtos[p].estoque_reservado = 0

\* C20: a call of atualizar_status_pedido(pedido_id, 'Entregue') that has
\* started returns: it does not wait forever for the write lock its own
\* first connection holds.
C20_ChamadaTermina == (chamada.pc # "ocioso") ~> (chamada.pc = "ocioso")

\* the call for a 'Produção' order has returned after the second connection
\* waited for the lock and gave up
C20_Witness ==
    /\ chamada.pc = "ocioso"
    /\ ultimo.op = "atualizar_status_pedido" /\ ultimo.liberar = "falhou"
    /\ \E pedido_id \in DOMAIN pedidos :
          /\ pedidos[pedido_id].tipo_pedido = Producao
          /\ pedidos[pedido_id].status = "Entregue"

\* C21: excluir_cliente is refused for a client with a stored order, and in
\* every reachable state the client of every stored order is stored.
C21_ClienteDoPedidoExiste ==
    \A pedido_id \in DOMAIN pedidos :
       pedidos[pedido_id].cliente_id \in clientes

\* C23: a status change of a stored 'Venda' order to 'Em produção', 'Pronto
\* para entrega' or 'Entregue', and of a stored 'Produção' order to 'Em
\* produção' or 'Pronto para entrega', leaves estoque and estoque_reservado
\* of every product as they were.
C23_StatusSemEfeitoNoEstoque ==
    [][\A s \in DOMAIN st_session_state : \A novo_status \in StatusOpcoes :
         (/\ AtualizarStatus(s, novo_status)
          /\ novo_status # listado[s].status
          /\ ListadoExiste(s)
          /\ IF pedidos[listado[s].pedido_id].tipo_pedido = Venda
             THEN novo_status \in {"Em produção", "Pronto para entrega",
                                   "Entregue"}
             ELSE novo_status \in {"Em produção", "Pronto para entrega"})
         => produtos' = produtos]_vars

\* a 'Venda' order with lines was just marked 'Entregue'
C23_Witness ==
    /\ ultimo.op = "atualizar_status_pedido" /\ ultimo.ok
    /\ \E pedido_id \in DOMAIN pedidos :
          /\ pedidos[pedido_id].tipo_pedido = Venda
          /\ pedidos[pedido_id].status = "Entregue"
          /\ SelectItens(DB, pedido_id) # <<>>

\* C24: a new order has no data_entrega_real; data_entrega_real of a stored
\* order changes only in a step that leaves the order 'Entregue'; and every
\* order whose status is 'Entregue' has a data_entrega_real.
C24_DataSoNaEntrega ==
    [][\A pedido_id \in DOMAIN pedidos' :
         /\ pedidos'[pedido_id].status = "Entregue"
              => pedidos'[pedido_id].data_entrega_real # NULL
         /\ IF pedido_id \in DOMAIN pedidos
            THEN pedidos'[pedido_id].data_entrega_real
                   # pedidos[pedido_id].data_entrega_real
                 => /\ pedidos'[pedido_id].status = "Entregue"
                    /\ ultimo'.op = "atualizar_status_pedido"
            ELSE pedidos'[pedido_id].data_entrega_real = NULL]_vars

\* an order was marked 'Entregue' and then given another status: it keeps
\* the date
C24_Witness ==
    /\ ultimo.op = "atualizar_status_pedido" /\ ultimo.ok
    /\ \E pedido_id \in DOMAIN pedidos :
          /\ pedidos[pedido_id].status # "Entregue"
          /\ pedidos[pedido_id].data_entrega_real # NULL

\* the columns of an order row that no status change may write
Composicao(pedido) ==
    [cliente_id |-> pedido.cliente_id, tipo_pedido |-> pedido.tipo_pedido,
     quantidade_total |-> pedido.quantidade_total,
     valor_total |-> pedido.valor_total]

\* C25: in every step, an order stored before and after keeps its
\* tipo_pedido, quantidade_total, valor_total and its lines; a status change
\* leaves the set of orders and the whole pedido_itens table as they were.
C25_ComposicaoImutavel ==
    [][/\ \A pedido_id \in DOMAIN pedidos \cap DOMAIN pedidos' :
            /\ Composicao(pedidos'[pedido_id]) = Composicao(pedidos[pedido_id])
            /\ SelectSeq(pedido_itens', LAMBDA r : r.pedido_id = pedido_id)
                 = SelectSeq(pedido_itens, LAMBDA r : r.pedido_id = pedido_id)
       /\ ultimo'.op = "atualizar_status_pedido"
            => /\ pedido_itens' = pedido_itens
               /\ DOMAIN pedidos' = DOMAIN pedidos]_vars

\* an order with lines was just cancelled and still has its totals
C25_Witness ==
    /\ ultimo.op = "atualizar_status_pedido" /\ ultimo.ok
    /\ \E pedido_id \in DOMAIN pedidos :
          /\ pedidos[pedido_id].status = "Cancelado"
          /\ pedidos[pedido_id].quantidade_total > 0
          /\ pedidos[pedido_id].valor_total > 0
          /\ SelectItens(DB, pedido_id) # <<>>

\* C26: every stored order has quantidade_total equal to the sum of the
\* quantities of its pedido_itens rows.
C26_TotalSomaDasLinhas ==
    \A pedido_id \in DOMAIN pedidos :
       pedidos[pedido_id].quantidade_total
         = SomaQuantidade(SelectItens(DB, pedido_id))

\* a stored order of two lines, one of them of more than one unit
C26_Witness ==
    \E pedido_id \in DOMAIN pedidos :
       LET itens == SelectItens(DB, pedido_id) IN
       /\ Len(itens) = 2
       /\ \E i \in DOMAIN itens : itens[i].quantidade > 1
       /\ pedidos[pedido_id].quantidade_total > 2

\* the lines of product p in stored 'Produção' orders not yet 'Entregue'
LinhasEmAberto(p) ==
    SelectSeq(pedido_itens,
              LAMBDA r : /\ r.produto_id = p
                         /\ r.pedido_id \in DOMAIN pedidos
                         /\ pedidos[r.pedido_id].tipo_pedido = Producao
                         /\ pedidos[r.pedido_id].status # "Entregue")

\* C27: each product's estoque_reservado equals the sum of the quantities of
\* its lines in the stored 'Produção' orders that are not 'Entregue'.
C27_ReservaDosPedidosAbertos ==
    \A p \in DOMAIN produtos :
       produtos[p].estoque_reservado = SomaQuantidade(LinhasEmAberto(p))

\* the lines of product p in stored 'Venda' orders
LinhasDeVenda(p) ==
    SelectSeq(pedido_itens,
              LAMBDA r : /\ r.produto_id = p
                         /\ r.pedido_id \in DOMAIN pedidos
                         /\ pedidos[r.pedido_id].tipo_pedido = Venda)

\* C28: with only 'Venda' orders and no manual adjustment, estoque plus the
\* quantities of the product's lines in the stored 'Venda' orders keeps its
\* initial value, whatever the statuses of the orders.
C28_VendaConservaEstoque ==
    \A p \in DOMAIN produtos :
       produtos[p].estoque + SomaQuantidade(LinhasDeVenda(p)) = EstoqueInicial

\* one order was deleted and a stored one, delivered or cancelled, still
\* holds units
C28_Witness ==
    /\ \E pedido_id \in 1..sqlite_sequence : pedido_id \notin DOMAIN pedidos
    /\ \E pedido_id \in DOMAIN pedidos :
          /\ pedidos[pedido_id].status \in {"Entregue", "Cancelado"}
          /\ SomaQuantidade(SelectItens(DB, pedido_id)) > 0

\* C29: in one session composing a 'Venda' order, every draft line's
\* accumulated quantity is at most the estoque of its product, and so
\* "Finalizar Pedido" never leaves an estoque below zero.
C29_RascunhoCabeNoEstoque ==
    /\ \A s \in DOMAIN st_session_state :
          st_session_state[s].tipo_pedido = Venda
            => \A i \in DOMAIN Rascunho(s) :
                  Rascunho(s)[i].quantidade <= ProdutoDaLinha(s, i).estoque
    /\ ultimo.op = "adicionar_pedido" /\ ultimo.ok
          => \A p \in DOMAIN produtos : produtos[p].estoque >= 0

\* C30: "Finalizar Pedido" with the selector on 'Venda' creates no order
\* from a draft, composed under the 'Produção' rule, in which a line's
\* quantity exceeds the estoque of its product.
C30_TrocaDeTipoNaoFinaliza ==
    [][\A s \in DOMAIN st_session_state :
         (/\ FinalizarPedido(s, 0, MaxPedidos)
          /\ st_session_state[s].tipo_pedido = Venda
          /\ \E i \in DOMAIN Rascunho(s) :
                Rascunho(s)[i].quantidade > ProdutoDaLinha(s, i).estoque)
         => /\ sqlite_sequence' = sqlite_sequence
            /\ produtos' = produtos]_vars

=============================================================================
